---- MODULE Spec2Model ----
\* Real-time presence and chat core (the "IMPROVED Socket.IO Configuration"
\* of the backend): handshake authentication, presence registry, room
\* membership, message delivery with acknowledgement, status broadcast and
\* the stale-connection sweeper.
\*
\* Node runs every handler on one thread: the code between two awaits is one
\* atomic step.  An awaited prisma call is modelled as one step that performs
\* the database operation and runs the continuation up to the next await.
\*
\* What a step sends (the acknowledgement, the emitted events) is kept in
\* `out` until the transport takes it (Deliver); no handler reads `out`.
EXTENDS Integers, Sequences, FiniteSets, TLC

\* ---------------------------------------------------------------- bounds
MaxConns     == 3   \* sockets accepted during a run
MaxChatConns == 2   \* sockets accepted during a run of the chat specifications
MaxTasks     == 1   \* handler invocations suspended on an await
MaxBcasts    == 1   \* broadcastUserStatus calls suspended when a connection opens or closes
MaxStatusBcasts == 2  \* broadcastUserStatus calls suspended on their query
MaxOpenConns == 1   \* sockets open at the same time in the activity specification
MaxMsgs      == 1   \* rows of the messages table
MaxTicks     == 2   \* clock advances

\* ------------------------------------------------------------- constants
Users     == {1, 2, 3}          \* ids of the rows of the users table
NoUser    == 0                  \* an id missing from a payload (undefined)
GhostUser == 4                  \* id in a valid token whose user row is gone
CONNECTION_TIMEOUT == 5 * 60 * 1000
SweepInterval      == 5 * 60 * 1000
TickMs             == 5 * 60 * 1000   \* the clock advances in steps of 5 minutes
MaxContent         == 5000
PreviewLen         == 50
NoContent == -1                 \* content missing from a payload (undefined)
ContentLens == {NoContent, 0, MaxContent, MaxContent + 1}
UnknownMsg == MaxMsgs + 1       \* a message id no row has
NoTime == -1                    \* readAt of an unread row (null)
NoRoom == <<>>
NoTemp == 0                     \* tempId missing from a payload (undefined)
ATempId == 1                    \* a tempId chosen by a client

VARIABLES
  onlineUsers,   \* Map<userId, {socketId, lastActivity}>
  userRooms,     \* Map<userId, Set<roomId>>
  sockets,       \* sockets accepted so far: userId, connected, adapter rooms
  friendships,   \* rows of the friendships table
  messages,      \* rows of the messages table, id = index
  now,           \* Date.now()
  tasks,         \* handler invocations suspended on an await
  bcasts,        \* broadcastUserStatus calls suspended on findMany
  out            \* what the last step sent: acknowledgement and emitted events

vars == <<onlineUsers, userRooms, sockets, friendships, messages, now, tasks,
          bcasts, out>>

\* ------------------------------------------------------------ Map helpers
EmptyMap == [x \in {} |-> 0]
MapSet(m, k, v) == [x \in (DOMAIN m) \cup {k} |-> IF x = k THEN v ELSE m[x]]
MapDelete(m, k) == [x \in (DOMAIN m) \ {k} |-> m[x]]

\* RoomId without the sort: the caller's id first
RoomIdUnsorted(a, b) == <<a, b>>

\* [a, b].sort().join('-'): the two ids in ascending order, undefined last
RoomId(a, b) ==
  IF a = NoUser THEN <<b, a>>
  ELSE IF b = NoUser THEN <<a, b>>
  ELSE IF a <= b THEN <<a, b>> ELSE <<b, a>>

\* prisma.friendship.findFirst({OR: [{a,b},{b,a}]}) of the friends route
FindAnyFriendship(fs, a, b) ==
  {f \in fs : \/ (f.userId1 = a /\ f.userId2 = b)
              \/ (f.userId1 = b /\ f.userId2 = a)}

\* FindFriendship without the isBlocked filter
FindFriendshipUnfiltered(fs, a, b) ==
  {f \in fs : \/ (f.userId1 = a /\ f.userId2 = b)
              \/ (f.userId1 = b /\ f.userId2 = a)}

\* prisma.friendship.findFirst({OR: [{a,b},{b,a}], isBlocked: false})
FindFriendship(fs, a, b) ==
  {f \in fs : /\ \/ (f.userId1 = a /\ f.userId2 = b)
                 \/ (f.userId1 = b /\ f.userId2 = a)
              /\ ~f.isBlocked}

\* FriendIds without the isBlocked filter
FriendIdsUnfiltered(fs, u) ==
  {IF f.userId1 = u THEN f.userId2 ELSE f.userId1 :
     f \in {g \in fs : g.userId1 = u \/ g.userId2 = u}}

\* prisma.friendship.findMany({OR: [{userId1}, {userId2}], isBlocked: false})
\* mapped to the id of the other side
FriendIds(fs, u) ==
  {IF f.userId1 = u THEN f.userId2 ELSE f.userId1 :
     f \in {g \in fs : (g.userId1 = u \/ g.userId2 = u) /\ ~g.isBlocked}}

\* updateActivity(): stamps the entry, no-op when the entry is absent
UpdateActivityCreates(ou, u, t) ==
  [v \in (DOMAIN ou) \cup {u} |->
     IF v \in DOMAIN ou
     THEN IF v = u THEN [ou[v] EXCEPT !.lastActivity = t] ELSE ou[v]
     ELSE [lastActivity |-> t, socketId |-> 1]]

UpdateActivity(ou, u, t) ==
  IF u \in DOMAIN ou THEN [ou EXCEPT ![u].lastActivity = t] ELSE ou

SockIds == 1..Len(sockets)
Connected(s) == s \in SockIds /\ sockets[s].connected
UserOf(s) == sockets[s].userId

\* io.to(roomId): the connected sockets the adapter lists under roomId
Subscribers(ss, room) ==
  {s \in 1..Len(ss) : ss[s].connected /\ room \in ss[s].rooms}

\* io.to(socketId), socket.emit: the socket itself, while it is connected
Direct(ss, s) == {x \in 1..Len(ss) : x = s /\ ss[x].connected}

\* --------------------------------------------------------------- outputs
NoReply == [success |-> FALSE, message |-> "", tempId |-> NoTemp]
Ok      == [success |-> TRUE,  message |-> "ok", tempId |-> NoTemp]
Err(m)  == [success |-> FALSE, message |-> m, tempId |-> NoTemp]

\* one event delivered to socket `to`
Emit(ev, to, u, m, st, room, text) ==
  [ev |-> ev, to |-> to, userId |-> u, msgId |-> m, status |-> st,
   room |-> room, text |-> text, tempId |-> NoTemp]

\* the record of one step: the event handled, the place in the handler that
\* answered, its socket and payload, the response object, the channel it went
\* through and the events emitted
Out(op, at, s, peer, content, reply, via, emits) ==
  [op |-> op, at |-> at, sock |-> s, peer |-> peer, content |-> content,
   reply |-> reply, via |-> via, emits |-> emits]

\* nothing sent
NoOut == Out("", "", 0, NoUser, NoContent, NoReply, "none", {})

\* if (callback) callback(response): dropped when no callback came
Ack(op, at, s, peer, content, cb, reply, emits) ==
  Out(op, at, s, peer, content, reply, IF cb THEN "callback" ELSE "none", emits)

\* callback ? callback(error) : socket.emit('error', error)
Reject(op, at, s, peer, content, cb, m) ==
  Out(op, at, s, peer, content, Err(m), IF cb THEN "callback" ELSE "error",
      IF cb THEN {}
      ELSE {Emit("error", x, 0, 0, "", NoRoom, m) : x \in Direct(sockets, s)})

\* if (callback) callback({success: false, message}): no error event
RejectCb(op, at, s, peer, content, cb, m) ==
  Ack(op, at, s, peer, content, cb, Err(m), {})

\* a handler runs once the packets the previous step queued (socket.emit, the
\* acknowledgement callback) have been handed to the transport
Turn == out = NoOut

\* the transport takes the packets queued by the last step
Deliver ==
  /\ ~Turn
  /\ out' = NoOut
  /\ UNCHANGED <<onlineUsers, userRooms, sockets, friendships, messages, now,
                 tasks, bcasts>>

\* ------------------------------------------------------------------ Init
InitFriendships ==
  {[userId1 |-> 1, userId2 |-> 2, isBlocked |-> FALSE],
   [userId1 |-> 2, userId2 |-> 3, isBlocked |-> TRUE]}

Init ==
  /\ onlineUsers = EmptyMap
  /\ userRooms = EmptyMap
  /\ sockets = <<>>
  /\ friendships = InitFriendships
  /\ messages = <<>>
  /\ now = 0
  /\ tasks = {}
  /\ bcasts = <<>>
  /\ out = NoOut

\* ------------------------------------------------- handshake, connection
\* a handshake token: none, one jwt.verify rejects, or one that decodes to an id
Tokens == {[kind |-> "missing", userId |-> NoUser],
           [kind |-> "invalid", userId |-> NoUser]}
          \cup {[kind |-> "valid", userId |-> u] : u \in Users \cup {GhostUser}}

\* Authenticate without the `if (!user)` test
AuthenticateNoLookup(tok) ==
  IF tok.kind = "missing" THEN "Authentication token required"
  ELSE IF tok.kind = "invalid" THEN "Invalid authentication token"
  ELSE ""

\* io.use(...): the error passed to next(), "" when the handshake is accepted
Authenticate(tok) ==
  IF tok.kind = "missing" THEN "Authentication token required"
  ELSE IF tok.kind = "invalid" THEN "Invalid authentication token"
  ELSE IF tok.userId \notin Users THEN "User not found"
  ELSE ""

\* broadcastUserStatus(io, userId, status) up to its await
CallBroadcast(bs, u, status) == Append(bs, [userId |-> u, status |-> status])

\* OnConnection that keeps the handle of a user that already has an entry
OnConnectionKeepsHandle(u) ==
  LET s == Len(sockets) + 1 IN
  /\ sockets' = Append(sockets, [userId |-> u, connected |-> TRUE, rooms |-> {}])
  /\ onlineUsers' = IF u \in DOMAIN onlineUsers THEN onlineUsers
                    ELSE MapSet(onlineUsers, u, [socketId |-> s, lastActivity |-> now])
  /\ userRooms' = IF u \in DOMAIN userRooms THEN userRooms
                  ELSE MapSet(userRooms, u, {})
  /\ bcasts' = CallBroadcast(bcasts, u, "online")
  /\ out' = NoOut

\* io.on('connection'): register the socket, initialise the rooms, broadcast
OnConnection(u) ==
  LET s == Len(sockets) + 1 IN
  /\ sockets' = Append(sockets, [userId |-> u, connected |-> TRUE, rooms |-> {}])
  /\ onlineUsers' = MapSet(onlineUsers, u, [socketId |-> s, lastActivity |-> now])
  /\ userRooms' = IF u \in DOMAIN userRooms THEN userRooms
                  ELSE MapSet(userRooms, u, {})
  /\ bcasts' = CallBroadcast(bcasts, u, "online")
  /\ out' = NoOut

\* one handshake: the middleware, then the connection handler if it accepts
Handshake(tok) ==
  /\ Turn
  /\ Len(sockets) < MaxConns
  /\ Len(bcasts) < MaxStatusBcasts
  /\ IF Authenticate(tok) = ""
     THEN OnConnection(tok.userId)
     ELSE /\ out' = Out("handshake", "middleware", 0, tok.userId, NoContent,
                        Err(Authenticate(tok)), "next", {})
          /\ UNCHANGED <<onlineUsers, userRooms, sockets, bcasts>>
  /\ UNCHANGED <<friendships, messages, now, tasks>>

\* no broadcast is pending beyond MaxBcasts when a connection opens or closes
Settled == Len(bcasts) < MaxBcasts

SettledHandshake(tok) == Settled /\ Handshake(tok)

ChatHandshake(tok) == Len(sockets) < MaxChatConns /\ SettledHandshake(tok)

\* a client that reconnects only after its previous socket has closed
SoloHandshake(tok) ==
  /\ Cardinality({s \in SockIds : sockets[s].connected}) < MaxOpenConns
  /\ ChatHandshake(tok)

\* Disconnect without userRooms.delete(userId)
DisconnectKeepsRooms(s) ==
  /\ Turn
  /\ Connected(s)
  /\ Len(bcasts) < MaxStatusBcasts
  /\ LET u == sockets[s].userId IN
     /\ sockets' = [sockets EXCEPT ![s].connected = FALSE, ![s].rooms = {}]
     /\ onlineUsers' = MapDelete(onlineUsers, u)
     /\ bcasts' = CallBroadcast(bcasts, u, "offline")
  /\ out' = NoOut
  /\ UNCHANGED <<userRooms, friendships, messages, now, tasks>>

\* socket.on('disconnect'): the socket has left its rooms; drop the entry, the
\* rooms, and broadcast 'offline'
Disconnect(s) ==
  /\ Turn
  /\ Connected(s)
  /\ Len(bcasts) < MaxStatusBcasts
  /\ LET u == sockets[s].userId IN
     /\ sockets' = [sockets EXCEPT ![s].connected = FALSE, ![s].rooms = {}]
     /\ onlineUsers' = MapDelete(onlineUsers, u)
     /\ userRooms' = MapDelete(userRooms, u)
     /\ bcasts' = CallBroadcast(bcasts, u, "offline")
  /\ out' = NoOut
  /\ UNCHANGED <<friendships, messages, now, tasks>>

SettledDisconnect(s) == Settled /\ Disconnect(s)

\* the user:status events of one broadcast: one to the handle of every
\* friend that has an entry
StatusEvents(u, status) ==
  {Emit("user:status", x, u, 0, status, NoRoom, "") :
     x \in UNION {Direct(sockets, onlineUsers[f].socketId) :
                    f \in {g \in FriendIds(friendships, u) : g \in DOMAIN onlineUsers}}}

RemoveAt(q, i) == [k \in 1..(Len(q) - 1) |-> IF k < i THEN q[k] ELSE q[k + 1]]

\* broadcastUserStatus after its await
BroadcastUserStatus(i) ==
  /\ Turn
  /\ i \in 1..Len(bcasts)
  /\ out' = Out("user:status", "findMany", 0, bcasts[i].userId, NoContent, NoReply, "none",
                StatusEvents(bcasts[i].userId, bcasts[i].status))
  /\ bcasts' = RemoveAt(bcasts, i)
  /\ UNCHANGED <<onlineUsers, userRooms, sockets, friendships, messages, now, tasks>>

\* the findMany of broadcastUserStatus throws: logged, nothing sent
BroadcastFails(i) ==
  /\ Turn
  /\ i \in 1..Len(bcasts)
  /\ bcasts' = RemoveAt(bcasts, i)
  /\ out' = NoOut
  /\ UNCHANGED <<onlineUsers, userRooms, sockets, friendships, messages, now, tasks>>

\* ------------------------------------------------------- clock, sweeper
Tick ==
  /\ Turn
  /\ now < MaxTicks * TickMs
  /\ now' = now + TickMs
  /\ UNCHANGED <<onlineUsers, userRooms, sockets, friendships, messages, tasks,
                 bcasts, out>>

\* Stale with `>=` for `>`
StaleAtThreshold(ou, t) == {u \in DOMAIN ou : t - ou[u].lastActivity >= CONNECTION_TIMEOUT}

\* the entries the cleanup interval deletes
Stale(ou, t) == {u \in DOMAIN ou : t - ou[u].lastActivity > CONNECTION_TIMEOUT}

\* setInterval(() => {...}, 5 * 60 * 1000)
Sweep ==
  /\ Turn
  /\ now >= SweepInterval
  /\ onlineUsers' = [u \in (DOMAIN onlineUsers) \ Stale(onlineUsers, now) |-> onlineUsers[u]]
  /\ userRooms' = [u \in (DOMAIN userRooms) \ Stale(onlineUsers, now) |-> userRooms[u]]
  /\ UNCHANGED <<sockets, friendships, messages, now, tasks, bcasts, out>>

\* socket.on('heartbeat')
HeartbeatNoTouch(s, cb) ==
  /\ Turn
  /\ Connected(s)
  /\ onlineUsers' = onlineUsers
  /\ out' = IF cb THEN Ack("heartbeat", "", s, NoUser, NoContent, cb, Ok, {}) ELSE NoOut
  /\ UNCHANGED <<userRooms, sockets, friendships, messages, now, tasks, bcasts>>

Heartbeat(s, cb) ==
  /\ Turn
  /\ Connected(s)
  /\ onlineUsers' = UpdateActivity(onlineUsers, UserOf(s), now)
  /\ out' = IF cb THEN Ack("heartbeat", "", s, NoUser, NoContent, cb, Ok, {}) ELSE NoOut
  /\ UNCHANGED <<userRooms, sockets, friendships, messages, now, tasks, bcasts>>

\* DELETE /api/friends/:friendId: the row between the two users is deleted
Unfriend(u, f) ==
  /\ Turn
  /\ \E r \in FindAnyFriendship(friendships, u, f) : friendships' = friendships \ {r}
  /\ UNCHANGED <<onlineUsers, userRooms, sockets, messages, now, tasks, bcasts, out>>

\* ------------------------------------------------------------ chat rooms
Task(kind, s, peer, cb, content, msg) ==
  [kind |-> kind, sock |-> s, peer |-> peer, cb |-> cb, content |-> content,
   msg |-> msg, tempId |-> NoTemp]

\* socket.on('chat:join') up to the await of findFirst
ChatJoin(s, peer, cb) ==
  /\ Turn
  /\ Connected(s)
  /\ onlineUsers' = UpdateActivity(onlineUsers, UserOf(s), now)
  /\ IF peer = NoUser
     THEN /\ out' = Reject("chat:join", "validate", s, peer, NoContent, cb,
                           "otherUserId is required")
          /\ tasks' = tasks
     ELSE /\ Cardinality(tasks) < MaxTasks
          /\ Task("join", s, peer, cb, NoContent, 0) \notin tasks
          /\ tasks' = tasks \cup {Task("join", s, peer, cb, NoContent, 0)}
          /\ out' = NoOut
  /\ UNCHANGED <<userRooms, sockets, friendships, messages, now, bcasts>>

\* socket.on('chat:join') after findFirst: socket.join, then the room record
ChatJoinResume(t, dbOk) ==
  /\ Turn
  /\ t \in tasks /\ t.kind = "join"
  /\ tasks' = tasks \ {t}
  /\ LET u == UserOf(t.sock)
         roomId == RoomId(u, t.peer)
     IN IF ~dbOk
        THEN /\ out' = Reject("chat:join", "findFirst", t.sock, t.peer, NoContent, t.cb,
                              "Failed to join chat room")
             /\ UNCHANGED <<sockets, userRooms>>
        ELSE IF FindFriendship(friendships, u, t.peer) = {}
        THEN /\ out' = Reject("chat:join", "findFirst", t.sock, t.peer, NoContent, t.cb,
                              "Can only chat with friends")
             /\ UNCHANGED <<sockets, userRooms>>
        ELSE /\ sockets' = [sockets EXCEPT ![t.sock].rooms = @ \cup {roomId}]
             /\ IF u \in DOMAIN userRooms
                THEN /\ userRooms' = [userRooms EXCEPT ![u] = @ \cup {roomId}]
                     /\ out' = Ack("chat:join", "join", t.sock, t.peer, NoContent, t.cb, Ok,
                                   {Emit("chat:joined", x, t.peer, 0, "", roomId, "") :
                                      x \in Direct(sockets, t.sock)})
                ELSE \* userRooms.get(userId) is undefined: .add throws, caught
                     /\ userRooms' = userRooms
                     /\ out' = Reject("chat:join", "join", t.sock, t.peer, NoContent, t.cb,
                                      "Failed to join chat room")
  /\ UNCHANGED <<onlineUsers, friendships, messages, now, bcasts>>

\* ChatLeave that fails when the socket is not in the room
ChatLeaveStrict(s, peer, cb) ==
  /\ Turn
  /\ Connected(s)
  /\ LET u == UserOf(s)
         roomId == RoomId(u, peer)
     IN /\ onlineUsers' = UpdateActivity(onlineUsers, u, now)
        /\ sockets' = [sockets EXCEPT ![s].rooms = @ \ {roomId}]
        /\ userRooms' = IF u \in DOMAIN userRooms
                        THEN [userRooms EXCEPT ![u] = @ \ {roomId}]
                        ELSE userRooms
        /\ out' = IF roomId \in sockets[s].rooms
                  THEN (IF cb THEN Ack("chat:leave", "", s, peer, NoContent, cb, Ok, {})
                        ELSE NoOut)
                  ELSE Reject("chat:leave", "", s, peer, NoContent, cb, "Not in room")
  /\ UNCHANGED <<friendships, messages, now, tasks, bcasts>>

\* socket.on('chat:leave')
ChatLeave(s, peer, cb) ==
  /\ Turn
  /\ Connected(s)
  /\ LET u == UserOf(s)
         roomId == RoomId(u, peer)
     IN /\ onlineUsers' = UpdateActivity(onlineUsers, u, now)
        /\ sockets' = [sockets EXCEPT ![s].rooms = @ \ {roomId}]
        /\ userRooms' = IF u \in DOMAIN userRooms
                        THEN [userRooms EXCEPT ![u] = @ \ {roomId}]
                        ELSE userRooms
  /\ out' = IF cb THEN Ack("chat:leave", "", s, peer, NoContent, cb, Ok, {}) ELSE NoOut
  /\ UNCHANGED <<friendships, messages, now, tasks, bcasts>>

\* socket.on('typing:start') and socket.on('typing:stop'): socket.to(roomId)
Typing(s, peer, isTyping) ==
  /\ Turn
  /\ Connected(s)
  /\ onlineUsers' = UpdateActivity(onlineUsers, UserOf(s), now)
  /\ LET emits == {Emit("typing:user", x, UserOf(s), 0,
                        IF isTyping THEN "typing" ELSE "idle", NoRoom, "") :
                     x \in Subscribers(sockets, RoomId(UserOf(s), peer)) \ {s}}
     IN out' = IF emits = {} THEN NoOut
               ELSE Out("typing", "", s, peer, NoContent, NoReply, "none", emits)
  /\ UNCHANGED <<userRooms, sockets, friendships, messages, now, tasks, bcasts>>

\* --------------------------------------------------------------- messages
\* the row prisma.message.create inserts
MessageRow(sender, receiver, content) ==
  [senderId |-> sender, receiverId |-> receiver, content |-> content,
   isRead |-> FALSE, readAt |-> NoTime]

\* ValidateSend with `>=` for `>`
ValidateSendOffByOne(peer, content) ==
  IF content = NoContent \/ content = 0 \/ peer = NoUser
  THEN "Content and receiverId required"
  ELSE IF content >= MaxContent THEN "Message too long (max 5000 characters)"
  ELSE ""

\* the validation of message:send: the error message, "" when the payload passes
ValidateSend(peer, content) ==
  IF content = NoContent \/ content = 0 \/ peer = NoUser
  THEN "Content and receiverId required"
  ELSE IF content > MaxContent THEN "Message too long (max 5000 characters)"
  ELSE ""

Sending == {t \in tasks : t.kind \in {"send", "create"}}

\* a message:send suspended on findFirst, with the tempId of its payload
SendTask(s, peer, cb, content, tempId) ==
  [Task("send", s, peer, cb, content, 0) EXCEPT !.tempId = tempId]

\* socket.on('message:send') up to the await of findFirst
MessageSend(s, peer, content, tempId, cb) ==
  /\ Turn
  /\ Connected(s)
  /\ onlineUsers' = UpdateActivity(onlineUsers, UserOf(s), now)
  /\ IF ValidateSend(peer, content) # ""
     THEN /\ out' = Reject("message:send", "validate", s, peer, content, cb,
                           ValidateSend(peer, content))
          /\ tasks' = tasks
     ELSE /\ Cardinality(tasks) < MaxTasks
          /\ Len(messages) + Cardinality(Sending) < MaxMsgs
          /\ SendTask(s, peer, cb, content, tempId) \notin tasks
          /\ tasks' = tasks \cup {SendTask(s, peer, cb, content, tempId)}
          /\ out' = NoOut
  /\ UNCHANGED <<userRooms, sockets, friendships, messages, now, bcasts>>

\* socket.on('message:send') after findFirst, up to the await of create
MessageSendCheck(t, dbOk) ==
  /\ Turn
  /\ t \in tasks /\ t.kind = "send"
  /\ IF ~dbOk
     THEN /\ out' = Reject("message:send", "findFirst", t.sock, t.peer, t.content, t.cb,
                           "Failed to send message")
          /\ tasks' = tasks \ {t}
     ELSE IF FindFriendship(friendships, UserOf(t.sock), t.peer) = {}
     THEN /\ out' = Reject("message:send", "findFirst", t.sock, t.peer, t.content, t.cb,
                           "Can only message friends")
          /\ tasks' = tasks \ {t}
     ELSE /\ out' = NoOut
          /\ tasks' = (tasks \ {t}) \cup {[t EXCEPT !.kind = "create"]}
  /\ UNCHANGED <<onlineUsers, userRooms, sockets, friendships, messages, now, bcasts>>

\* Notification without the test of the receiver's room record
NotificationAlways(sender, receiver, roomId, msgId, content) ==
  IF receiver \in DOMAIN onlineUsers
  THEN {Emit("message:notification", x, sender, msgId, "", NoRoom,
             IF content > PreviewLen THEN "preview:50" ELSE "preview:all") :
          x \in Direct(sockets, onlineUsers[receiver].socketId)}
  ELSE {}

\* the message:notification of one send: to the receiver's handle, when the
\* receiver has an entry and its room record lacks the room
Notification(sender, receiver, roomId, msgId, content) ==
  IF receiver \in DOMAIN onlineUsers
     /\ roomId \notin (IF receiver \in DOMAIN userRooms THEN userRooms[receiver] ELSE {})
  THEN {Emit("message:notification", x, sender, msgId, "", NoRoom,
             IF content > PreviewLen THEN "preview:50" ELSE "preview:all") :
          x \in Direct(sockets, onlineUsers[receiver].socketId)}
  ELSE {}

\* FanOut with socket.to(roomId) for io.to(roomId): the sender's sockets left out
FanOutToOthers(sender, roomId, msgId, tempId) ==
  {[Emit("message:new", x, sender, msgId, "", roomId, "") EXCEPT !.tempId = tempId] :
     x \in {y \in Subscribers(sockets, roomId) : UserOf(y) # sender}}

\* the message:new fan-out of one send: io.to(roomId)
FanOut(sender, roomId, msgId, tempId) ==
  {[Emit("message:new", x, sender, msgId, "", roomId, "") EXCEPT !.tempId = tempId] :
     x \in Subscribers(sockets, roomId)}

\* SendFailed with the fan-out ahead of the create
SendFailedAfterFanOut(t) ==
  [Reject("message:send", "create", t.sock, t.peer, t.content, t.cb,
         "Failed to send message")
     EXCEPT !.emits = @ \cup FanOut(UserOf(t.sock), RoomId(UserOf(t.sock), t.peer),
                                    Len(messages) + 1, t.tempId)]

\* Sent without the tempId
SentWithoutTempId(tempId) == Ok

\* callback({success: true, message, tempId})
Sent(tempId) == [Ok EXCEPT !.tempId = tempId]

\* the catch block of message:send
SendFailed(t) ==
  Reject("message:send", "create", t.sock, t.peer, t.content, t.cb,
         "Failed to send message")

\* socket.on('message:send') from prisma.message.create on: the row, the
\* fan-out, the acknowledgement and the notification
MessageSendCreate(t, dbOk) ==
  /\ Turn
  /\ t \in tasks /\ t.kind = "create"
  /\ tasks' = tasks \ {t}
  /\ LET u == UserOf(t.sock)
         roomId == RoomId(u, t.peer)
         id == Len(messages) + 1
     IN IF ~dbOk
        THEN /\ out' = SendFailed(t)
             /\ messages' = messages
        ELSE /\ messages' = Append(messages, MessageRow(u, t.peer, t.content))
             /\ out' = Ack("message:send", "create", t.sock, t.peer, t.content, t.cb,
                           Sent(t.tempId),
                           FanOut(u, roomId, id, t.tempId)
                           \cup Notification(u, t.peer, roomId, id, t.content))
  /\ UNCHANGED <<onlineUsers, userRooms, sockets, friendships, now, bcasts>>

\* socket.on('message:read') up to the await of update
MessageRead(s, msgId, senderId, cb) ==
  /\ Turn
  /\ Connected(s)
  /\ onlineUsers' = UpdateActivity(onlineUsers, UserOf(s), now)
  /\ Cardinality(tasks) < MaxTasks
  /\ Task("read", s, senderId, cb, NoContent, msgId) \notin tasks
  /\ tasks' = tasks \cup {Task("read", s, senderId, cb, NoContent, msgId)}
  /\ out' = NoOut
  /\ UNCHANGED <<userRooms, sockets, friendships, messages, now, bcasts>>

\* MessageReadResume that flips isRead instead of setting it
MessageReadToggles(t, dbOk) ==
  /\ Turn
  /\ t \in tasks /\ t.kind = "read"
  /\ tasks' = tasks \ {t}
  /\ IF dbOk /\ t.msg \in 1..Len(messages)
     THEN /\ messages' = [messages EXCEPT ![t.msg].isRead = ~@, ![t.msg].readAt = now]
          /\ out' = Ack("message:read", "update", t.sock, t.peer, NoContent, t.cb, Ok,
                        IF t.peer \in DOMAIN onlineUsers
                        THEN {Emit("message:read", x, UserOf(t.sock), t.msg, "", NoRoom, "") :
                                x \in Direct(sockets, onlineUsers[t.peer].socketId)}
                        ELSE {})
     ELSE /\ messages' = messages
          /\ out' = RejectCb("message:read", "update", t.sock, t.peer, NoContent, t.cb,
                             IF dbOk THEN "Record to update not found"
                             ELSE "database error")
  /\ UNCHANGED <<onlineUsers, userRooms, sockets, friendships, now, bcasts>>

\* socket.on('message:read') from prisma.message.update on
MessageReadOwnerOnly(t, dbOk) ==
  /\ Turn
  /\ t \in tasks /\ t.kind = "read"
  /\ tasks' = tasks \ {t}
  /\ IF dbOk /\ t.msg \in 1..Len(messages) /\ messages[t.msg].receiverId = UserOf(t.sock)
     THEN /\ messages' = [messages EXCEPT ![t.msg].isRead = TRUE, ![t.msg].readAt = now]
          /\ out' = Ack("message:read", "update", t.sock, t.peer, NoContent, t.cb, Ok,
                        IF t.peer \in DOMAIN onlineUsers
                        THEN {Emit("message:read", x, UserOf(t.sock), t.msg, "", NoRoom, "") :
                                x \in Direct(sockets, onlineUsers[t.peer].socketId)}
                        ELSE {})
     ELSE /\ messages' = messages
          /\ out' = RejectCb("message:read", "update", t.sock, t.peer, NoContent, t.cb,
                             IF ~dbOk THEN "database error"
                             ELSE IF t.msg \in 1..Len(messages) THEN "Unauthorized"
                             ELSE "Record to update not found")
  /\ UNCHANGED <<onlineUsers, userRooms, sockets, friendships, now, bcasts>>

MessageReadResume(t, dbOk) ==
  /\ Turn
  /\ t \in tasks /\ t.kind = "read"
  /\ tasks' = tasks \ {t}
  /\ IF dbOk /\ t.msg \in 1..Len(messages)
     THEN /\ messages' = [messages EXCEPT ![t.msg].isRead = TRUE, ![t.msg].readAt = now]
          /\ out' = Ack("message:read", "update", t.sock, t.peer, NoContent, t.cb, Ok,
                        IF t.peer \in DOMAIN onlineUsers
                        THEN {Emit("message:read", x, UserOf(t.sock), t.msg, "", NoRoom, "") :
                                x \in Direct(sockets, onlineUsers[t.peer].socketId)}
                        ELSE {})
     ELSE /\ messages' = messages
          /\ out' = RejectCb("message:read", "update", t.sock, t.peer, NoContent, t.cb,
                             IF dbOk THEN "Record to update not found"
                             ELSE "database error")
  /\ UNCHANGED <<onlineUsers, userRooms, sockets, friendships, now, bcasts>>

\* PUT /api/messages/:messageId/read by user u: 404 without the row, 403 when
\* u is not its receiver, else the row is marked read. The row findUnique
\* returned is the row update writes: rows are never deleted and receiverId
\* is never written. The refusals and a failing query change nothing.
PutRead(u, msgId) ==
  /\ Turn
  /\ msgId \in 1..Len(messages)
  /\ messages[msgId].receiverId = u
  /\ messages' = [messages EXCEPT ![msgId].isRead = TRUE, ![msgId].readAt = now]
  /\ UNCHANGED <<onlineUsers, userRooms, sockets, friendships, now, tasks, bcasts, out>>

\* socket.on('friends:online') up to the await of findMany
FriendsOnline(s, cb) ==
  /\ Turn
  /\ Connected(s)
  /\ onlineUsers' = UpdateActivity(onlineUsers, UserOf(s), now)
  /\ Cardinality(tasks) < MaxTasks
  /\ Task("friends", s, NoUser, cb, NoContent, 0) \notin tasks
  /\ tasks' = tasks \cup {Task("friends", s, NoUser, cb, NoContent, 0)}
  /\ out' = NoOut
  /\ UNCHANGED <<userRooms, sockets, friendships, messages, now, bcasts>>

\* socket.on('friends:online') after findMany
FriendsOnlineResume(t, dbOk) ==
  /\ Turn
  /\ t \in tasks /\ t.kind = "friends"
  /\ tasks' = tasks \ {t}
  /\ out' = IF dbOk
            THEN Ack("friends:online", "findMany", t.sock, NoUser, NoContent, t.cb, Ok,
                     {Emit("friends:online", x, 0, 0, "", NoRoom, "") :
                        x \in Direct(sockets, t.sock)})
            ELSE RejectCb("friends:online", "findMany", t.sock, NoUser, NoContent, t.cb,
                          "database error")
  /\ UNCHANGED <<onlineUsers, userRooms, sockets, friendships, messages, now, bcasts>>

\* ------------------------------------------------------ next-state relations
\* the connection handlers' disconnects, the broadcasts, the clock, the
\* sweeper, the friends route and the transport: with a handshake, every
\* action that writes the presence registry, the room records or the
\* friendships outside the chat handlers
Life ==
  \/ \E s \in SockIds : SettledDisconnect(s)
  \/ \E i \in 1..MaxBcasts : BroadcastUserStatus(i)
  \/ \E i \in 1..MaxBcasts : BroadcastFails(i)
  \/ Tick
  \/ Sweep
  \/ Unfriend(1, 2)
  \/ Deliver

Rooms ==
  \/ \E s \in SockIds, p \in Users \cup {NoUser}, cb \in BOOLEAN : ChatJoin(s, p, cb)
  \/ \E t \in tasks, dbOk \in BOOLEAN : ChatJoinResume(t, dbOk)
  \/ \E s \in SockIds, p \in Users, cb \in BOOLEAN : ChatLeave(s, p, cb)

\* payloads of message:send: a well-formed one to every user, every
\* malformed shape (no receiver; content missing, empty, one over the limit),
\* and a well-formed one that carries a tempId
SendInputs ==
  {<<p, MaxContent, NoTemp>> : p \in Users}
  \cup {<<NoUser, MaxContent, NoTemp>>}
  \cup {<<2, c, NoTemp>> : c \in ContentLens}
  \cup {<<2, MaxContent, ATempId>>}

Sends ==
  \/ \E s \in SockIds, in \in SendInputs, cb \in BOOLEAN :
        MessageSend(s, in[1], in[2], in[3], cb)
  \/ \E t \in tasks, dbOk \in BOOLEAN : MessageSendCheck(t, dbOk)
  \/ \E t \in tasks, dbOk \in BOOLEAN : MessageSendCreate(t, dbOk)

Reads ==
  \/ \E s \in SockIds, m \in 1..UnknownMsg, p \in Users, cb \in BOOLEAN :
        MessageRead(s, m, p, cb)
  \/ \E t \in tasks, dbOk \in BOOLEAN : MessageReadResume(t, dbOk)

Friends ==
  \/ \E s \in SockIds, cb \in BOOLEAN : FriendsOnline(s, cb)
  \/ \E t \in tasks, dbOk \in BOOLEAN : FriendsOnlineResume(t, dbOk)

HttpReads == \E u \in Users, m \in 1..UnknownMsg : PutRead(u, m)

Others ==
  \/ \E s \in SockIds, cb \in BOOLEAN : Heartbeat(s, cb)
  \/ \E s \in SockIds, p \in Users, b \in BOOLEAN : Typing(s, p, b)

Next ==
  \/ \E tok \in Tokens : SettledHandshake(tok)
  \/ Life \/ Rooms \/ Sends \/ Reads \/ HttpReads \/ Friends \/ Others

Spec == Init /\ [][Next]_vars

\* presence: connections, the sweeper and the keep-alive
NextPresence ==
  \/ \E tok \in Tokens : SettledHandshake(tok)
  \/ Life
  \/ \E s \in SockIds, cb \in BOOLEAN : Heartbeat(s, cb)

SpecPresence == Init /\ [][NextPresence]_vars

\* joining and sending
NextSend ==
  \/ \E tok \in Tokens : ChatHandshake(tok)
  \/ Life \/ Rooms \/ Sends

SpecSend == Init /\ [][NextSend]_vars

\* joining and leaving, with the connections, the clock and the sweeper
NextRooms ==
  \/ \E tok \in Tokens : ChatHandshake(tok)
  \/ Life \/ Rooms

SpecRooms == Init /\ [][NextRooms]_vars

\* every handler that answers its caller
NextEvents ==
  \/ \E tok \in Tokens : ChatHandshake(tok)
  \/ \E s \in SockIds : SettledDisconnect(s)
  \/ \E i \in 1..MaxBcasts : BroadcastUserStatus(i)
  \/ Deliver
  \/ Rooms \/ Sends \/ Reads \/ Friends

SpecEvents == Init /\ [][NextEvents]_vars

\* the messages table: its rows and the two ways of marking one read
NextRead ==
  \/ \E tok \in Tokens : ChatHandshake(tok)
  \/ \E s \in SockIds : SettledDisconnect(s)
  \/ \E i \in 1..MaxBcasts : BroadcastUserStatus(i)
  \/ Tick
  \/ Deliver
  \/ Sends \/ Reads \/ HttpReads

SpecRead == Init /\ [][NextRead]_vars

\* direct deliveries to a user's handle, with up to MaxConns sockets
NextHandles ==
  \/ \E tok \in Tokens : SettledHandshake(tok)
  \/ \E s \in SockIds : SettledDisconnect(s)
  \/ \E i \in 1..MaxBcasts : BroadcastUserStatus(i)
  \/ Deliver
  \/ Sends \/ Reads

SpecHandles == Init /\ [][NextHandles]_vars

\* connections opening and closing while status broadcasts are pending
NextStatus ==
  \/ \E tok \in Tokens : Handshake(tok)
  \/ \E s \in SockIds : Disconnect(s)
  \/ \E i \in 1..MaxStatusBcasts : BroadcastUserStatus(i)
  \/ Deliver

SpecStatus == Init /\ [][NextStatus]_vars

\* joining and sending with up to MaxConns sockets that stay open
NextDeliver ==
  \/ \E tok \in Tokens : SettledHandshake(tok)
  \/ \E i \in 1..MaxBcasts : BroadcastUserStatus(i)
  \/ Deliver
  \/ Rooms \/ Sends

SpecDeliver == Init /\ [][NextDeliver]_vars

\* every event of a socket, the clock and the sweeper
NextActivity ==
  \/ \E tok \in Tokens : SoloHandshake(tok)
  \/ \E s \in SockIds : SettledDisconnect(s)
  \/ \E i \in 1..MaxBcasts : BroadcastUserStatus(i)
  \/ Tick
  \/ Sweep
  \/ Deliver
  \/ Rooms \/ Sends \/ Reads \/ Friends \/ Others

SpecActivity == Init /\ [][NextActivity]_vars

\* ================================================================ claims
\* a and b have a friendship row that is not blocked
Related(a, b) ==
  \E f \in friendships : {f.userId1, f.userId2} = {a, b} /\ ~f.isBlocked

RoomsOf(ss) == [s \in 1..Len(ss) |-> ss[s].rooms]

\* C1: when A and B have no unblocked friendship, the chat:join of A with B
\* and the message:send of A to B end rejected, with the authorization error
\* whenever the friendship lookup returns, whoever is online; the step that
\* rejects subscribes nothing and creates no message row.
C1_NoChatWithoutFriendship ==
  [][\A t \in tasks :
       (t.kind \in {"join", "send"} /\ t \notin tasks'
        /\ ~Related(UserOf(t.sock), t.peer))
       => /\ out'.sock = t.sock /\ out'.peer = t.peer
          /\ ~out'.reply.success
          /\ out'.via = (IF t.cb THEN "callback" ELSE "error")
          /\ out'.op = (IF t.kind = "join" THEN "chat:join" ELSE "message:send")
          /\ out'.reply.message \in
               (IF t.kind = "join"
                THEN {"Can only chat with friends", "Failed to join chat room"}
                ELSE {"Can only message friends", "Failed to send message"})
          /\ (ChatJoinResume(t, TRUE) => out'.reply.message = "Can only chat with friends")
          /\ (MessageSendCheck(t, TRUE) => out'.reply.message = "Can only message friends")
          /\ tasks' = tasks \ {t}
          /\ RoomsOf(sockets') = RoomsOf(sockets)
          /\ userRooms' = userRooms
          /\ messages' = messages]_vars

\* a send to a user that is online and not a friend has just been refused,
\* after a join of the same pair could have been refused as well
C1_Witness ==
  /\ out.op = "message:send"
  /\ out.reply = Err("Can only message friends")
  /\ out.peer \in DOMAIN onlineUsers
  /\ ~Related(UserOf(out.sock), out.peer)

\* C2: a message:send that answers success has created exactly one message
\* row (sender the caller, receiver the target, unread) and has sent
\* message:new, with the id of that row, to every socket subscribed to the
\* room of the pair at the fan-out.
C2_SendPersistsAndFansOut ==
  [][(out'.op = "message:send" /\ out'.reply.success)
      => LET sender == UserOf(out'.sock)
             id == Len(messages')
         IN /\ Len(messages') = Len(messages) + 1
            /\ SubSeq(messages', 1, Len(messages)) = messages
            /\ messages'[id] = [senderId |-> sender, receiverId |-> out'.peer,
                                content |-> out'.content, isRead |-> FALSE,
                                readAt |-> NoTime]
            /\ \A s \in 1..Len(sockets') :
                 (sockets'[s].connected
                  /\ RoomId(sender, out'.peer) \in sockets'[s].rooms)
                 => \E e \in out'.emits :
                      e.ev = "message:new" /\ e.to = s /\ e.msgId = id
                      /\ e.userId = sender]_vars

\* an acknowledged send whose room holds the sockets of both users
C2_Witness ==
  /\ out.op = "message:send" /\ out.reply.success /\ out.via = "callback"
  /\ Cardinality({e.to : e \in {x \in out.emits : x.ev = "message:new"}}) = 2
  /\ Len(messages) = 1

\* C3: on a successful send, message:notification goes exactly once, to the
\* socket of the receiver's presence entry, when the receiver has an entry
\* and has not joined the room of the pair; otherwise to nobody.
C3_NotificationIffOnlineOutsideRoom ==
  (out.op = "message:send" /\ out.reply.success)
  => LET roomId == RoomId(UserOf(out.sock), out.peer)
         notes == {e \in out.emits : e.ev = "message:notification"}
         joined == out.peer \in DOMAIN userRooms /\ roomId \in userRooms[out.peer]
     IN IF out.peer \in DOMAIN onlineUsers /\ ~joined
        THEN /\ Cardinality(notes) = 1
             /\ \A e \in notes : /\ e.to = onlineUsers[out.peer].socketId
                                 /\ UserOf(e.to) = out.peer
                                 /\ e.msgId = Len(messages)
        ELSE notes = {}

\* a send notified to a receiver that is online outside the room, while the
\* sender is online too
C3_Witness ==
  /\ out.op = "message:send" /\ out.reply.success
  /\ UserOf(out.sock) \in DOMAIN onlineUsers
  /\ \E e \in out.emits : e.ev = "message:notification"

\* C4: when prisma.message.create fails, the caller gets the failure (through
\* the callback if it gave one, else as an 'error' event) and the step sends
\* no message:new, no message:notification and no success.
C4_NoDeliveryOnPersistFailure ==
  [][\A t \in tasks :
       (t.kind = "create" /\ t \notin tasks' /\ messages' = messages)
       => /\ out'.op = "message:send" /\ out'.sock = t.sock
          /\ ~out'.reply.success
          /\ out'.reply.message = "Failed to send message"
          /\ out'.via = (IF t.cb THEN "callback" ELSE "error")
          /\ (~t.cb /\ sockets[t.sock].connected)
             => \E e \in out'.emits : e.ev = "error" /\ e.to = t.sock
          /\ \A e \in out'.emits : e.ev \notin {"message:new", "message:notification"}]_vars

\* a create has just failed while both sockets of the pair sat in the room
C4_Witness ==
  /\ out.op = "message:send" /\ out.at = "create" /\ ~out.reply.success
  /\ Cardinality(Subscribers(sockets, RoomId(UserOf(out.sock), out.peer))) = 2
  /\ messages = <<>>

\* C5: message:send with content missing or empty, with no receiverId, or
\* with content longer than 5000 is refused by the validation: the step
\* starts no friendship lookup, creates no row and leaves the sockets as they
\* are; 5001 characters get the length error, 5000 characters pass.
C5_SendValidation ==
  [][/\ (out'.op = "message:send")
        => LET absent == out'.content = NoContent \/ out'.content = 0
                         \/ out'.peer = NoUser
               long == ~absent /\ out'.content > 5000
           IN /\ absent => out'.reply = Err("Content and receiverId required")
              /\ long => out'.reply = Err("Message too long (max 5000 characters)")
              /\ (absent \/ long) <=> out'.at = "validate"
              /\ out'.at = "validate"
                 => /\ tasks' = tasks /\ messages' = messages
                    /\ sockets' = sockets /\ userRooms' = userRooms
                    /\ out'.via \in {"callback", "error"}
     /\ \A t \in tasks' :
          t.kind \in {"send", "create"}
          => t.peer # NoUser /\ t.content >= 1 /\ t.content <= 5000]_vars

\* a 5001-character send has just been refused after a 5000-character one
\* was stored
C5_Witness ==
  /\ out.op = "message:send" /\ out.content = 5001
  /\ out.reply = Err("Message too long (max 5000 characters)")
  /\ sockets[out.sock].connected
  /\ \E i \in 1..Len(messages) : messages[i].content = 5000

\* C6: a user has a presence entry exactly when one of its sockets is open.
C6_PresenceIffOpenConnection ==
  \A u \in Users :
    u \in DOMAIN onlineUsers <=> \E s \in SockIds : Connected(s) /\ UserOf(s) = u

\* C7: a connection broadcasts 'online' when the user had no entry, and only
\* replaces the handle, without a broadcast, when the user had one.
C7_OnlineOncePerTransition ==
  [][Len(sockets') = Len(sockets) + 1
      => LET s == Len(sockets')
             u == sockets'[s].userId
         IN /\ onlineUsers'[u].socketId = s
            /\ IF u \in DOMAIN onlineUsers
               THEN bcasts' = bcasts
               ELSE bcasts' = Append(bcasts, [userId |-> u, status |-> "online"])]_vars

\* C8: whenever the entry of a user with an online friend is removed, by the
\* sweeper as by a disconnect, the 'offline' broadcast of that user is started.
C8_EvictionBroadcastsOffline ==
  [][\A u \in (DOMAIN onlineUsers) \ (DOMAIN onlineUsers') :
       (\E f \in DOMAIN onlineUsers' : Related(u, f))
       => bcasts' = Append(bcasts, [userId |-> u, status |-> "offline"])]_vars

\* C9: a handshake without a token, with a token that does not verify, or
\* with the token of a user that does not exist is refused and changes
\* nothing: no entry, no room record, no broadcast, no socket; every socket
\* that exists belongs to an existing user.
C9_RejectedHandshakeLeavesNothing ==
  [][/\ (out'.op = "handshake")
        => /\ ~out'.reply.success
           /\ UNCHANGED <<onlineUsers, userRooms, sockets, bcasts, tasks>>
     /\ \A s \in 1..Len(sockets') : sockets'[s].userId \in Users
     /\ (DOMAIN onlineUsers') \cup (DOMAIN userRooms') \subseteq Users
     /\ \A i \in 1..Len(bcasts') : bcasts'[i].userId \in Users]_vars

\* the token of a missing user has just been refused while a user was online
C9_Witness ==
  /\ out.op = "handshake" /\ out.reply = Err("User not found")
  /\ out.peer = GhostUser
  /\ \E s \in SockIds : Connected(s)

\* C10: every failure of chat:join, message:send, message:read and
\* friends:online reaches the caller: through the callback when it gave one,
\* else as an 'error' event.
C10_FailuresReported ==
  (out.op \in {"chat:join", "message:send", "message:read", "friends:online"}
   /\ ~out.reply.success)
  => /\ out.via \in {"callback", "error"}
     /\ (out.via = "error" /\ Connected(out.sock))
        => \E e \in out.emits : e.ev = "error" /\ e.to = out.sock

\* a step of a chat handler of socket s that starts on a received event
Handles(s) ==
  \/ \E p \in Users \cup {NoUser}, cb \in BOOLEAN : ChatJoin(s, p, cb)
  \/ \E p \in Users, cb \in BOOLEAN : ChatLeave(s, p, cb)
  \/ \E in \in SendInputs, cb \in BOOLEAN : MessageSend(s, in[1], in[2], in[3], cb)

\* C11: a chat:join, message:send or message:read that ends in failure closes
\* no socket and leaves the online users, their handles, the room records
\* and the rooms of every socket as they were; a join answered success:false
\* has subscribed the socket to nothing.
C11_FailureLeavesStateUntouched ==
  [][(out'.op \in {"chat:join", "message:send", "message:read"}
      /\ ~out'.reply.success)
     => /\ Len(sockets') = Len(sockets)
        /\ \A s \in SockIds : sockets'[s].connected = sockets[s].connected
        /\ DOMAIN onlineUsers' = DOMAIN onlineUsers
        /\ \A u \in DOMAIN onlineUsers :
             onlineUsers'[u].socketId = onlineUsers[u].socketId
        /\ userRooms' = userRooms
        /\ \A s \in SockIds :
             sockets[s].connected => sockets'[s].rooms = sockets[s].rooms]_vars

\* C12: while a message:send of a socket is suspended before its row, its
\* fan-out and its acknowledgement, no handler of a later event of the same
\* socket starts.
C12_SendCompletesBeforeNextEvent ==
  [][\A t \in tasks :
       t.kind \in {"send", "create"} => ~Handles(t.sock)]_vars

\* C13: the step that closes a socket removes the presence entry and the room
\* record of its user and starts the 'offline' broadcast of that user; after
\* it isUserOnline(user) is false.
C13_DisconnectTearsDown ==
  [][\A s \in SockIds :
       (sockets[s].connected /\ ~sockets'[s].connected)
       => LET u == sockets[s].userId
          IN /\ u \notin DOMAIN onlineUsers'
             /\ u \notin DOMAIN userRooms'
             /\ sockets'[s].rooms = {}
             /\ bcasts' = Append(bcasts, [userId |-> u, status |-> "offline"])
             /\ tasks' = tasks /\ out' = NoOut]_vars

\* a socket that had joined a room with a friend still in it has closed, and
\* the 'offline' broadcast of its user is pending
C13_Witness ==
  \E s \in SockIds :
    /\ ~sockets[s].connected
    /\ UserOf(s) \notin DOMAIN onlineUsers
    /\ bcasts = <<[userId |-> UserOf(s), status |-> "offline"]>>
    /\ \E x \in SockIds :
         Connected(x) /\ Related(UserOf(x), UserOf(s))
         /\ RoomId(UserOf(x), UserOf(s)) \in sockets[x].rooms

\* C14: a row that is read stays read through every step, no step removes a
\* row, and a message:read that answers success leaves its row read, whether
\* the row was read before or not.
C14_ReadIsIdempotent ==
  [][/\ Len(messages') >= Len(messages)
     /\ \A i \in 1..Len(messages) : messages[i].isRead => messages'[i].isRead
     /\ \A t \in tasks :
          (t.kind = "read" /\ t \notin tasks' /\ out'.reply.success)
          => /\ t.msg \in 1..Len(messages')
             /\ messages'[t.msg].isRead
             /\ messages'[t.msg].readAt # NoTime]_vars

\* a second message:read of a row already read is under way
C14_Witness ==
  \E t \in tasks :
    /\ t.kind = "read"
    /\ t.msg \in 1..Len(messages)
    /\ messages[t.msg].isRead

\* C15: the room id of A with B is the room id of B with A; the room a join
\* subscribes to and the room a send fans out to are that one id, whichever
\* side computes it.
C15_RoomIdSymmetric ==
  /\ \A a, b \in Users \cup {NoUser} : RoomId(a, b) = RoomId(b, a)
  /\ \A s \in SockIds : \A r \in sockets[s].rooms :
       \E p \in Users : r = RoomId(UserOf(s), p) /\ r = RoomId(p, UserOf(s))
  /\ \A e \in out.emits :
       e.ev = "message:new"
       => /\ e.room = RoomId(out.peer, UserOf(out.sock))
          /\ e.room = RoomId(UserOf(out.sock), out.peer)
          /\ e.room \in sockets[e.to].rooms

\* a user has just joined the room its friend had joined from the other side
C15_Witness ==
  /\ out.op = "chat:join" /\ out.reply.success
  /\ \E x \in SockIds :
       /\ Connected(x) /\ UserOf(x) = out.peer
       /\ sockets[x].rooms \cap sockets[out.sock].rooms # {}

C17_SweepRemovesExactlyStale ==
  [][Sweep
     => /\ DOMAIN onlineUsers' \subseteq DOMAIN onlineUsers
        /\ DOMAIN userRooms' \subseteq DOMAIN userRooms
        /\ \A u \in DOMAIN onlineUsers :
             IF now - onlineUsers[u].lastActivity > 300000
             THEN u \notin DOMAIN onlineUsers' /\ u \notin DOMAIN userRooms'
             ELSE /\ u \in DOMAIN onlineUsers'
                  /\ onlineUsers'[u] = onlineUsers[u]
                  /\ u \in DOMAIN userRooms
                     => u \in DOMAIN userRooms' /\ userRooms'[u] = userRooms[u]]_vars

\* one user is gone from the registry with its socket open, while a user
\* whose last activity is exactly 5 minutes old has kept its entry and rooms
C17_Witness ==
  \E x, y \in SockIds :
    /\ Connected(x) /\ Connected(y) /\ UserOf(x) # UserOf(y)
    /\ UserOf(y) \notin DOMAIN onlineUsers
    /\ UserOf(x) \in DOMAIN onlineUsers
    /\ now - onlineUsers[UserOf(x)].lastActivity = CONNECTION_TIMEOUT
    /\ UserOf(x) \in DOMAIN userRooms /\ userRooms[UserOf(x)] # {}

\* C18: a run of the cleanup interval that evicts a user leaves the sockets
\* of that user in no room.
C18_EvictionDiscardsRooms ==
  [][Sweep
     => \A s \in SockIds :
          (UserOf(s) \in DOMAIN onlineUsers /\ UserOf(s) \notin DOMAIN onlineUsers')
          => sockets'[s].rooms = {}]_vars

\* C19: the entry of a user holds the newest socket of that user, and every
\* message:notification, read receipt and user:status goes to the socket the
\* entry of its addressee holds.
C19_SingleHandlePerUser ==
  /\ \A u \in DOMAIN onlineUsers :
       /\ onlineUsers[u].socketId \in SockIds
       /\ UserOf(onlineUsers[u].socketId) = u
       /\ \A s \in SockIds : UserOf(s) = u => s <= onlineUsers[u].socketId
  /\ \A e \in out.emits :
       e.ev \in {"message:notification", "message:read", "user:status"}
       => /\ UserOf(e.to) \in DOMAIN onlineUsers
          /\ onlineUsers[UserOf(e.to)].socketId = e.to
          /\ e.ev \in {"message:notification", "message:read"}
             => UserOf(e.to) = out.peer

\* a message:notification has gone to the second socket of a user whose
\* first socket is still open
C19_Witness ==
  \E e \in out.emits :
    /\ e.ev = "message:notification"
    /\ \E s \in SockIds : s < e.to /\ Connected(s) /\ UserOf(s) = UserOf(e.to)

\* C20: the user:status events of one broadcast about U go to the handles of
\* exactly the users that have an unblocked friendship with U and an entry
\* when the broadcast is computed.
C20_StatusToOnlineFriendsOnly ==
  out.op = "user:status"
  => /\ {UserOf(e.to) : e \in out.emits}
        = {f \in Users : Related(out.peer, f) /\ f \in DOMAIN onlineUsers}
     /\ \A e \in out.emits :
          /\ e.ev = "user:status" /\ e.userId = out.peer
          /\ e.to = onlineUsers[UserOf(e.to)].socketId
     /\ \A e, g \in out.emits : UserOf(e.to) = UserOf(g.to) => e = g

\* the status of user 2 has gone to its friend 1 and not to user 3, blocked
\* and online
C20_Witness ==
  /\ out.op = "user:status" /\ out.peer = 2
  /\ {1, 3} \subseteq DOMAIN onlineUsers
  /\ {UserOf(e.to) : e \in out.emits} = {1}

\* C26: for every user with a presence entry, the room record of the user
\* exists and holds exactly the rooms the socket of the entry is subscribed to.
C26_RoomRecordMatchesTransport ==
  \A u \in DOMAIN onlineUsers :
    /\ u \in DOMAIN userRooms
    /\ userRooms[u] = sockets[onlineUsers[u].socketId].rooms

\* C27: when a socket closes while the entry of its user holds another, open
\* socket, the entry and the room record of the user stay as they are.
C27_OlderDisconnectKeepsPresence ==
  [][\A s \in SockIds :
       (sockets[s].connected /\ ~sockets'[s].connected)
       => LET u == UserOf(s)
          IN (/\ u \in DOMAIN onlineUsers
              /\ onlineUsers[u].socketId # s
              /\ Connected(onlineUsers[u].socketId))
             => /\ u \in DOMAIN onlineUsers'
                /\ onlineUsers'[u].socketId = onlineUsers[u].socketId
                /\ u \in DOMAIN userRooms'
                /\ userRooms'[u] = userRooms[u]]_vars

\* C28: an 'online' user:status about U is delivered only while U has a
\* presence entry or while an 'offline' broadcast about U is still to come.
C28_NoOnlineAfterOffline ==
  \A e \in out.emits :
    (e.ev = "user:status" /\ e.status = "online")
    => \/ e.userId \in DOMAIN onlineUsers
       \/ \E i \in 1..Len(bcasts) :
            bcasts[i] = [userId |-> e.userId, status |-> "offline"]

\* C30: a message row is created only while its sender and its receiver have
\* an unblocked friendship.
C30_NoRowWithoutFriendship ==
  [][Len(messages') > Len(messages)
     => LET m == messages'[Len(messages')]
        IN Related(m.senderId, m.receiverId)]_vars

\* C24: a successful message:send of a socket that sits in the room of the
\* pair and gave a callback sends that socket the message:new copy and the
\* success acknowledgement, both with the tempId of the payload.
C24_SenderGetsCopyAndAckWithTempId ==
  [][/\ \A t \in tasks :
          (/\ t.kind = "create" /\ t \notin tasks' /\ out'.reply.success
           /\ t.cb /\ sockets[t.sock].connected
           /\ RoomId(UserOf(t.sock), t.peer) \in sockets[t.sock].rooms)
          => /\ out'.op = "message:send" /\ out'.sock = t.sock
             /\ out'.via = "callback"
             /\ out'.reply.tempId = t.tempId
             /\ \E e \in out'.emits :
                  /\ e.ev = "message:new" /\ e.to = t.sock
                  /\ e.msgId = Len(messages') /\ e.tempId = t.tempId
     /\ \A t \in tasks' \ tasks :
          t.kind = "create"
          => \E t0 \in tasks \ tasks' :
               t0.kind = "send" /\ t0.sock = t.sock /\ t0.tempId = t.tempId]_vars

\* a send that carried a tempId has been acknowledged and fanned out to the
\* sending socket, each with that tempId
C24_Witness ==
  /\ out.op = "message:send" /\ out.reply.success /\ out.via = "callback"
  /\ out.reply.tempId = ATempId
  /\ \E e \in out.emits :
       e.ev = "message:new" /\ e.to = out.sock /\ e.tempId = ATempId

\* C25: after a successful send, the open socket that the entry of the
\* receiver holds has been sent message:new or message:notification for the
\* new row.
C25_ReceiverHandleGetsMessage ==
  (/\ out.op = "message:send" /\ out.reply.success
   /\ out.peer \in DOMAIN onlineUsers
   /\ Connected(onlineUsers[out.peer].socketId))
  => \E e \in out.emits :
       /\ e.to = onlineUsers[out.peer].socketId
       /\ e.ev \in {"message:new", "message:notification"}
       /\ e.msgId = Len(messages)

\* an inbound event of socket s: the first step of one of its eight handlers
Events(s) ==
  \/ Handles(s)
  \/ \E p \in Users, b \in BOOLEAN : Typing(s, p, b)
  \/ \E m \in 1..UnknownMsg, p \in Users, cb \in BOOLEAN : MessageRead(s, m, p, cb)
  \/ \E cb \in BOOLEAN : FriendsOnline(s, cb)
  \/ \E cb \in BOOLEAN : Heartbeat(s, cb)

\* C21: every inbound event of a socket, rejected or not, sets lastActivity
\* of the entry of its user to the current time and changes nothing else in
\* the registry; without an entry the registry stays as it is, and the
\* only failure such a step reports is a rejected payload.
C21_EveryEventTouchesActivity ==
  [][\A s \in SockIds :
       (/\ Connected(s)
        /\ now' = now /\ bcasts' = bcasts /\ messages' = messages
        /\ Events(s))
       => /\ DOMAIN onlineUsers' = DOMAIN onlineUsers
          /\ \A v \in DOMAIN onlineUsers :
               /\ onlineUsers'[v].socketId = onlineUsers[v].socketId
               /\ onlineUsers'[v].lastActivity =
                    IF v = UserOf(s) THEN now ELSE onlineUsers[v].lastActivity
          /\ (out' # NoOut /\ ~out'.reply.success /\ out'.op # "typing")
             => out'.at = "validate"]_vars

\* a rejected message:send has moved lastActivity of its user to the
\* current time, later than the connection time
C21_Witness ==
  /\ out.op = "message:send" /\ out.at = "validate" /\ ~out.reply.success
  /\ Connected(out.sock)
  /\ UserOf(out.sock) \in DOMAIN onlineUsers
  /\ now > 0
  /\ onlineUsers[UserOf(out.sock)].lastActivity = now

\* C22: a message:read event is sent only to a socket of the sender of the
\* message it names.
C22_ReceiptOnlyToOriginalSender ==
  \A e \in out.emits :
    e.ev = "message:read"
    => /\ e.msgId \in 1..Len(messages)
       /\ UserOf(e.to) = messages[e.msgId].senderId

\* C23: a message:read task on an existing row, run for any caller, either
\* sets isRead and readAt and succeeds or fails on the database; the HTTP
\* route changes a row only for its receiver.
C23_SocketReadHasNoOwnershipCheck ==
  [][/\ \A t \in tasks :
          (t.kind = "read" /\ t \notin tasks' /\ t.msg \in 1..Len(messages))
          => \/ /\ out'.reply.success
                /\ messages'[t.msg].isRead
                /\ messages'[t.msg].readAt = now
             \/ /\ ~out'.reply.success
                /\ out'.reply.message = "database error"
                /\ messages' = messages
     /\ \A u \in Users, m \in 1..UnknownMsg :
          PutRead(u, m) => messages[m].receiverId = u]_vars

\* a socket of a user who is not the receiver has marked the row read
C23_Witness ==
  /\ out.op = "message:read" /\ out.reply.success
  /\ Len(messages) = 1
  /\ messages[1].isRead
  /\ UserOf(out.sock) # messages[1].receiverId

\* C29: an entry of the registry appears only in the step that accepts a
\* new socket of that user, and it holds that socket.
C29_OnlyConnectionCreatesEntry ==
  [][\A u \in Users :
       (u \notin DOMAIN onlineUsers /\ u \in DOMAIN onlineUsers')
       => /\ Len(sockets') = Len(sockets) + 1
          /\ sockets'[Len(sockets')].userId = u
          /\ onlineUsers'[u].socketId = Len(sockets')]_vars

\* a heartbeat was acknowledged on an open socket whose user the sweeper
\* has evicted, and the user still has no entry
C29_Witness ==
  /\ out.op = "heartbeat" /\ out.reply.success
  /\ Connected(out.sock)
  /\ UserOf(out.sock) \notin DOMAIN onlineUsers
  /\ \A s \in SockIds : sockets[s].userId = UserOf(out.sock) => sockets[s].connected
====
